---- MODULE Spec2Model ----
(***************************************************************************)
(* Two programs of the repository:                                         *)
(*   - the payroll rate-reconciliation script (src/TestProject2.py,        *)
(*     lines 1-84): load, project, merge, coerce, reconcile, group, grand  *)
(*     total, write;                                                       *)
(*   - the RSS aggregator (src/HotDogMMA.com.py): init_db, aggregate_news, *)
(*     save_articles_to_db.                                                *)
(* A table cell is a record [k, n, s]: a number (k = "num", n counts       *)
(* hundredths, so 1.50 is 150), a text (k = "str"), a boolean or NaN.      *)
(* A table is [cols, rows]; a row is a function from the table's column    *)
(* names to cells.                                                         *)
(***************************************************************************)
EXTENDS Integers, Sequences, FiniteSets, TLC

VARIABLES
    pc,                    \* the script's position: the next statement group
    error,                 \* the exception that ended the run, or "none"
    rate_file,             \* the workbook at file_path
    payroll_file,          \* the workbook at file_path_for_payroll_data
    rate_sheet,
    payroll_data,
    Employee_names,
    Employees_with_rates,
    discrepancies,         \* what "Discrepancies Found:" printed
    grouped_employees,
    output_file,           \* the workbook at output_path, NoFile until written
    db_ready,              \* news.db has the articles table (init_db has run)
    articles,              \* the committed rows of the articles table, by id
    lock,                  \* the run whose connection holds the write lock, or 0
    pending,               \* the rows the lock holder inserted and has not committed
    run                    \* each aggregate_news call: where it is, what it holds

pvars == <<pc, error, rate_file, payroll_file, rate_sheet, payroll_data,
           Employee_names, Employees_with_rates, discrepancies,
           grouped_employees, output_file>>

rvars == <<db_ready, articles, lock, pending, run>>

vars == <<pvars, rvars>>

---------------------------------------------------------------------------
(* Cells *)

Num(n) == [k |-> "num", n |-> n, s |-> ""]

Str(s) == [k |-> "str", n |-> 0, s |-> s]

Bool(b) == [k |-> "bool", n |-> IF b THEN 1 ELSE 0, s |-> ""]

NaN == [k |-> "nan", n |-> 0, s |-> ""]

IsNa(c) == c.k = "nan"

\* Elementwise != of a column: NaN differs from everything, itself included.
CellNe(a, b) == IsNa(a) \/ IsNa(b) \/ a # b

---------------------------------------------------------------------------
(* Tables *)

Table(cols, rows) == [cols |-> cols, rows |-> rows]

NoTable == Table({}, <<>>)

NoFile == [written |-> FALSE, table |-> NoTable]

RECURSIVE SeqSum(_)
SeqSum(s) == IF s = <<>> THEN 0 ELSE Head(s) + SeqSum(Tail(s))

\* Sequences over S of length at most n.
SeqUpTo(S, n) == UNION {[1..m -> S] : m \in 0..n}

Restrict(row, cols) == [c \in cols |-> row[c]]

---------------------------------------------------------------------------
(* The workbooks the script reads *)

\* payroll_data.sample(10): the sample size of line 19.
SampleSize == 10

\* Free activity rows per payroll workbook.
MaxPayroll == 2

RateColumns == {"License", "Rate"}

PayrollColumns == {"Employee", "License", "Verified Date", "Hours"}

RateRow(license, rate) ==
    [c \in RateColumns |-> IF c = "License" THEN license ELSE rate]

PayrollRow(employee, license, date, hours, total) ==
    [c \in PayrollColumns \cup {"Total"} |->
        CASE c = "Employee" -> employee
          [] c = "License" -> license
          [] c = "Verified Date" -> date
          [] c = "Hours" -> hours
          [] OTHER -> total]

\* Rate rows: RN at 0.25 or with a text in the Rate cell; CNA at 50.00.
RateRows ==
    {RateRow(Str("RN"), Num(25)), RateRow(Str("RN"), Str("abc")),
     RateRow(Str("CNA"), Num(5000))}

\* Rate sheets: License unique within a sheet (spec, section 3), any order.
RateSheets ==
    {s \in SeqUpTo(RateRows, Cardinality(RateRows)) :
        \A i, j \in 1..Len(s) : i # j => s[i]["License"] # s[j]["License"]}

\* Rows that vary who, which license and which date (1.50 hours each).
GroupRows ==
    {PayrollRow(e, l, d, Num(150), NaN) :
        e \in {Str("Alice"), NaN, Str("Unassigned")},
        l \in {Str("LVN"), Str("RN")},
        d \in {Str("2024-05-01"), Str("2024-05-02"), NaN}}

\* Rows that vary what the Hours cell holds: a number, a numeric text, a
\* text that is no number, nothing.  Total is 0.12 where the sheet has one.
CoerceRows ==
    {PayrollRow(Str("Alice"), l, Str("2024-05-01"), h, Num(12)) :
        l \in {Str("LVN"), Str("RN")},
        h \in {Num(50), Str("1.5"), Str("ten"), NaN}}

\* sample(10) needs ten rows: every workbook ends with nine rows of the
\* "Unassigned" placeholder, so one free row is what makes it long enough.
PadRow ==
    PayrollRow(Str("Unassigned"), Str("RN"), Str("2024-05-01"), Num(1000), Num(0))

Pad == [i \in 1..(SampleSize - 1) |-> PadRow]

Sheet(cols, rows) ==
    Table(cols, [i \in 1..Len(rows) |-> Restrict(rows[i], cols)])

PayrollSheets ==
    {Sheet(PayrollColumns, free \o Pad) : free \in SeqUpTo(GroupRows, MaxPayroll)}
    \cup
    {Sheet(cols, free \o Pad) :
        cols \in {PayrollColumns, PayrollColumns \cup {"Total"}},
        free \in SeqUpTo(CoerceRows, MaxPayroll)}

\* A rate sheet that has a Total column of its own.
TotalledRateSheet ==
    Table(RateColumns \cup {"Total"},
          <<[c \in RateColumns \cup {"Total"} |->
                CASE c = "License" -> Str("RN")
                  [] c = "Rate" -> Num(25)
                  [] OTHER -> Num(12)]>>)

File(readable, table) == [readable |-> readable, table |-> table]

\* Workbooks with a fault: one that cannot be read, or lacks a column.
FaultyRateFiles ==
    {File(FALSE, NoTable)} \cup
    {File(TRUE, Sheet(RateColumns \ {c}, <<RateRow(Str("RN"), Num(25))>>)) :
        c \in RateColumns}

FaultyPayrollFiles ==
    {File(FALSE, NoTable)} \cup
    {File(TRUE, Sheet(PayrollColumns \ {c},
                      <<PayrollRow(Str("Alice"), Str("RN"), Str("2024-05-01"),
                                   Num(50), NaN)>> \o Pad)) :
        c \in PayrollColumns}

SoundRateFile == File(TRUE, Sheet(RateColumns, <<RateRow(Str("RN"), Num(25))>>))

SoundPayrollFile ==
    File(TRUE, Sheet(PayrollColumns,
                     <<PayrollRow(Str("Alice"), Str("RN"), Str("2024-05-01"),
                                  Num(50), NaN)>> \o Pad))

\* The aggregator is not part of a run of the payroll script.
NewsNotRunning ==
    /\ db_ready = FALSE
    /\ articles = <<>>
    /\ lock = 0
    /\ pending = <<>>
    /\ run = <<>>

Init ==
    /\ NewsNotRunning
    /\ pc = "load_rates"
    /\ error = "none"
    /\ \/ /\ rate_file \in {File(TRUE, Table(RateColumns, s)) : s \in RateSheets}
          /\ payroll_file \in {File(TRUE, t) : t \in PayrollSheets}
       \/ /\ rate_file = File(TRUE, TotalledRateSheet)
          /\ payroll_file \in
                {File(TRUE, Sheet(PayrollColumns, free \o Pad)) :
                    free \in SeqUpTo(CoerceRows, MaxPayroll)}
       \/ /\ rate_file \in FaultyRateFiles
          /\ payroll_file \in {SoundPayrollFile} \cup FaultyPayrollFiles
       \/ /\ rate_file = SoundRateFile
          /\ payroll_file \in FaultyPayrollFiles
    /\ rate_sheet = NoTable
    /\ payroll_data = NoTable
    /\ Employee_names = NoTable
    /\ Employees_with_rates = NoTable
    /\ discrepancies = <<>>
    /\ grouped_employees = NoTable
    /\ output_file = NoFile

---------------------------------------------------------------------------
(* The script, statement group by statement group *)

\* The exception swallowed and the run carried on to the write.
Swallow(exception) ==
    /\ pc' = "write"
    /\ error' = exception

Raise(exception) ==
    /\ pc' = "aborted"
    /\ error' = exception

\* Lines 7-12: rate_sheet = pd.read_excel(file_path)
LoadRates ==
    /\ pc = "load_rates"
    /\ IF rate_file.readable
       THEN /\ rate_sheet' = rate_file.table
            /\ pc' = "load_payroll"
            /\ error' = error
       ELSE /\ Raise("FileNotFoundError")
            /\ rate_sheet' = rate_sheet
    /\ UNCHANGED rvars
    /\ UNCHANGED <<rate_file, payroll_file, payroll_data, Employee_names,
                   Employees_with_rates, discrepancies, grouped_employees,
                   output_file>>

\* Lines 14-19: payroll_data = pd.read_excel(...); print(payroll_data.sample(10))
LoadPayroll ==
    /\ pc = "load_payroll"
    /\ IF ~payroll_file.readable
       THEN /\ Raise("FileNotFoundError")
            /\ payroll_data' = payroll_data
       ELSE /\ payroll_data' = payroll_file.table
            /\ IF Len(payroll_file.table.rows) < SampleSize
               THEN Raise("ValueError")
               ELSE /\ pc' = "project"
                    /\ error' = error
    /\ UNCHANGED rvars
    /\ UNCHANGED <<rate_file, payroll_file, rate_sheet, Employee_names,
                   Employees_with_rates, discrepancies, grouped_employees,
                   output_file>>

\* Lines 21-27: rows whose Employee is not "Unassigned", four columns kept.
\* A missing column raises KeyError; a Total column is not among those kept.
ProjectedColumns == {"Employee", "License", "Verified Date", "Hours"}

\* No filter on Employee.
KeepEveryRow(row) == TRUE

\* payroll_data["Employee"] != "Unassigned"
NotUnassigned(row) == CellNe(row["Employee"], Str("Unassigned"))

Project ==
    /\ pc = "project"
    /\ IF ProjectedColumns \subseteq payroll_data.cols
       THEN /\ Employee_names' =
                  Table(ProjectedColumns,
                        LET kept == SelectSeq(payroll_data.rows, NotUnassigned)
                        IN  [i \in 1..Len(kept) |-> Restrict(kept[i], ProjectedColumns)])
            /\ pc' = "merge"
            /\ error' = error
       ELSE /\ Raise("KeyError")
            /\ Employee_names' = Employee_names
    /\ UNCHANGED rvars
    /\ UNCHANGED <<rate_file, payroll_file, rate_sheet, payroll_data,
                   Employees_with_rates, discrepancies, grouped_employees,
                   output_file>>

\* The order pandas sorts text keys in (code point order), NaN last.
Lexicon == <<"2024-05-01", "2024-05-02", "CNA", "Grand Total", "LVN", "RN">>

Rank(cell) ==
    IF IsNa(cell) THEN Len(Lexicon) + 1
    ELSE CHOOSE i \in 1..Len(Lexicon) : Lexicon[i] = cell.s

RECURSIVE SortCells(_)
SortCells(S) ==
    IF S = {} THEN <<>>
    ELSE LET least == CHOOSE x \in S : \A y \in S : Rank(x) <= Rank(y)
         IN  <<least>> \o SortCells(S \ {least})

Cells(t, c) == {t.rows[i][c] : i \in 1..Len(t.rows)}

\* One joined row: the key, the left row's cells and the right row's cells;
\* a side with no matching row (has = FALSE) gives NaN.
JoinRow(left, right, on, key, l, hasl, r, hasr) ==
    [c \in left.cols \cup right.cols |->
        IF c = on THEN key
        ELSE IF c \in left.cols THEN (IF hasl THEN l[c] ELSE NaN)
        ELSE (IF hasr THEN r[c] ELSE NaN)]

\* The joined rows of one key: every left row with every right row of that
\* key, or the rows of the one side that has the key.
KeyRows(left, right, on, key) ==
    LET L == SelectSeq(left.rows, LAMBDA r : r[on] = key)
        R == SelectSeq(right.rows, LAMBDA r : r[on] = key)
    IN  IF R = <<>>
        THEN [i \in 1..Len(L) |-> JoinRow(left, right, on, key, L[i], TRUE, L[i], FALSE)]
        ELSE IF L = <<>>
        THEN [i \in 1..Len(R) |-> JoinRow(left, right, on, key, R[i], FALSE, R[i], TRUE)]
        ELSE [i \in 1..(Len(L) * Len(R)) |->
                JoinRow(left, right, on, key,
                        L[((i - 1) \div Len(R)) + 1], TRUE,
                        R[((i - 1) % Len(R)) + 1], TRUE)]

RECURSIVE MergeKeys(_, _, _, _)
MergeKeys(left, right, on, keys) ==
    IF keys = <<>> THEN <<>>
    ELSE KeyRows(left, right, on, Head(keys))
         \o MergeKeys(left, right, on, Tail(keys))

\* how="inner": only the keys both frames have.
MergeInner(left, right, on) ==
    Table(left.cols \cup right.cols,
          MergeKeys(left, right, on,
                    SortCells(Cells(left, on) \cap Cells(right, on))))

\* pd.merge(left, right, on=on, how="outer"): the union of the keys of both
\* frames, keys sorted.
MergeOuter(left, right, on) ==
    Table(left.cols \cup right.cols,
          MergeKeys(left, right, on,
                    SortCells(Cells(left, on) \cup Cells(right, on))))

\* Lines 29-30.
Merge ==
    /\ pc = "merge"
    /\ IF "License" \in Employee_names.cols /\ "License" \in rate_sheet.cols
       THEN /\ Employees_with_rates' = MergeOuter(Employee_names, rate_sheet, "License")
            /\ pc' = "coerce"
            /\ error' = error
       ELSE /\ Raise("KeyError")
            /\ Employees_with_rates' = Employees_with_rates
    /\ UNCHANGED rvars
    /\ UNCHANGED <<rate_file, payroll_file, rate_sheet, payroll_data,
                   Employee_names, discrepancies, grouped_employees, output_file>>

\* float(text), in hundredths, of the texts that are numbers.
ParseFloat == ("1.5" :> 150)

\* pd.to_numeric(cell, errors="coerce")
ToNumeric(cell) ==
    CASE cell.k = "num" -> cell
      [] cell.k = "str" /\ cell.s \in DOMAIN ParseFloat -> Num(ParseFloat[cell.s])
      [] OTHER -> NaN

\* .fillna(0)
FillNa(cell, value) == IF IsNa(cell) THEN Num(value) ELSE cell

\* frame[c] = column: the column is added, or replaced, cell by cell.
SetColumn(t, c, column) ==
    Table(t.cols \cup {c},
          [i \in 1..Len(t.rows) |->
              [d \in t.cols \cup {c} |-> IF d = c THEN column[i] ELSE t.rows[i][d]]])

\* pd.to_numeric(frame[c], errors="coerce").fillna(0), the whole column.
NumericColumn(t, c) == [i \in 1..Len(t.rows) |-> FillNa(ToNumeric(t.rows[i][c]), 0)]

\* Lines 32-38: Rate and Hours to numbers, what is no number to 0.
Coerce ==
    /\ pc = "coerce"
    /\ IF {"Rate", "Hours"} \subseteq Employees_with_rates.cols
       THEN /\ Employees_with_rates' =
                  SetColumn(SetColumn(Employees_with_rates, "Rate",
                                      NumericColumn(Employees_with_rates, "Rate")),
                            "Hours", NumericColumn(Employees_with_rates, "Hours"))
            /\ pc' = "reconcile"
            /\ error' = error
       ELSE /\ Raise("KeyError")
            /\ Employees_with_rates' = Employees_with_rates
    /\ UNCHANGED rvars
    /\ UNCHANGED <<rate_file, payroll_file, rate_sheet, payroll_data,
                   Employee_names, discrepancies, grouped_employees, output_file>>

\* The product cut to hundredths, not rounded.
Round2Floor(p) == p \div 100

\* round(2) of a product of two numbers in hundredths (p counts
\* ten-thousandths): to the nearest hundredth, a tie to the even one.
Round2(p) ==
    LET q == p \div 100
        r == p % 100
    IN  IF r < 50 THEN q
        ELSE IF r > 50 THEN q + 1
        ELSE IF q % 2 = 0 THEN q ELSE q + 1

CalculatedTotal(r) == Num(Round2(r["Rate"].n * r["Hours"].n))

\* Lines 40-56: Calculated Total; where the frame has a Total column, the
\* Discrepancy column and the rows printed; then Total = Calculated Total.
Reconcile ==
    /\ pc = "reconcile"
    /\ LET calculated == SetColumn(Employees_with_rates, "Calculated Total",
                                   [i \in 1..Len(Employees_with_rates.rows) |->
                                       CalculatedTotal(Employees_with_rates.rows[i])])
           checked ==
               IF "Total" \in calculated.cols
               THEN SetColumn(calculated, "Discrepancy",
                              [i \in 1..Len(calculated.rows) |->
                                  Bool(CellNe(calculated.rows[i]["Calculated Total"],
                                              calculated.rows[i]["Total"]))])
               ELSE calculated
       IN  /\ discrepancies' =
                 IF "Total" \in calculated.cols
                 THEN SelectSeq(checked.rows, LAMBDA r : r["Discrepancy"] = Bool(TRUE))
                 ELSE discrepancies
           /\ Employees_with_rates' =
                 SetColumn(checked, "Total",
                           [i \in 1..Len(checked.rows) |->
                               checked.rows[i]["Calculated Total"]])
    /\ pc' = "group"
    /\ UNCHANGED rvars
    /\ UNCHANGED <<error, rate_file, payroll_file, rate_sheet, payroll_data,
                   Employee_names, grouped_employees, output_file>>

\* The cell of the group's first row, NaN or not.
FirstRow(rows, c) == rows[1][c]

\* agg "first": the first cell of the column that is not NaN, in row order.
First(rows, c) ==
    LET present == SelectSeq(rows, LAMBDA r : ~IsNa(r[c]))
    IN  IF present = <<>> THEN NaN ELSE present[1][c]

\* agg "sum"
Sum(rows, c) == Num(SeqSum([i \in 1..Len(rows) |-> rows[i][c].n]))

GroupedColumns == {"Verified Date", "Employee", "License", "Rate", "Hours", "Total"}

\* groupby(by, as_index=False): one group per key that is not NaN
\* (dropna=True), keys sorted (sort=True).
GroupKeys(t, by) == SortCells({k \in Cells(t, by) : ~IsNa(k)})

GroupRow(t, by, key) ==
    LET rows == SelectSeq(t.rows, LAMBDA r : r[by] = key)
    IN  [c \in GroupedColumns |->
            CASE c = by -> key
              [] c \in {"Employee", "License", "Rate"} -> First(rows, c)
              [] OTHER -> Sum(rows, c)]

GroupBy(t, by) ==
    LET keys == GroupKeys(t, by)
    IN  Table(GroupedColumns, [i \in 1..Len(keys) |-> GroupRow(t, by, keys[i])])

\* Lines 58-65.
Group ==
    /\ pc = "group"
    /\ grouped_employees' = GroupBy(Employees_with_rates, "Verified Date")
    /\ pc' = "grand_total"
    /\ UNCHANGED rvars
    /\ UNCHANGED <<error, rate_file, payroll_file, rate_sheet, payroll_data,
                   Employee_names, Employees_with_rates, discrepancies, output_file>>

\* The totals taken without the first grouped row.
grand_total_row_short(t) ==
    [c \in GroupedColumns |->
        CASE c = "Verified Date" -> Str("Grand Total")
          [] c \in {"Employee", "License", "Rate"} -> Str("")
          [] OTHER -> Sum(IF t.rows = <<>> THEN <<>> ELSE Tail(t.rows), c)]

grand_total_row(t) ==
    [c \in GroupedColumns |->
        CASE c = "Verified Date" -> Str("Grand Total")
          [] c \in {"Employee", "License", "Rate"} -> Str("")
          [] OTHER -> Sum(t.rows, c)]

\* Lines 67-77.
GrandTotal ==
    /\ pc = "grand_total"
    /\ grouped_employees' =
          Table(GroupedColumns, grouped_employees.rows \o <<grand_total_row(grouped_employees)>>)
    /\ pc' = "write"
    /\ UNCHANGED rvars
    /\ UNCHANGED <<error, rate_file, payroll_file, rate_sheet, payroll_data,
                   Employee_names, Employees_with_rates, discrepancies, output_file>>

\* Lines 79-84: grouped_employees.to_excel(output_path, index=False)
Write ==
    /\ pc = "write"
    /\ output_file' = [written |-> TRUE, table |-> grouped_employees]
    /\ pc' = "done"
    /\ UNCHANGED rvars
    /\ UNCHANGED <<error, rate_file, payroll_file, rate_sheet, payroll_data,
                   Employee_names, Employees_with_rates, discrepancies,
                   grouped_employees>>

Next ==
    \/ LoadRates
    \/ LoadPayroll
    \/ Project
    \/ Merge
    \/ Coerce
    \/ Reconcile
    \/ Group
    \/ GrandTotal
    \/ Write

Spec == Init /\ [][Next]_vars

---------------------------------------------------------------------------
(* The RSS aggregator, src/HotDogMMA.com.py *)

\* aggregate_news calls that may be under way together: the first run and
\* the scheduler's, of any process that has news.db open.
MaxRuns == 2

Runs == 1..MaxRuns

\* NEWS_SOURCES, one feed of each category: <<category, feed>>.
NEWS_SOURCES == <<<<"MMA", "bloodyelbow">>, <<"Boxing", "badlefthook">>>>

Links == {"link1", "link2"}

\* What a feed says of a link: a title and a published text.
Entries ==
    {[link |-> l, title |-> v[1], published |-> v[2]] :
        l \in Links,
        v \in {<<"title1", "Wed, 01 May 2024">>, <<"title2", "Thu, 02 May 2024">>}}

\* What one parse of a feed returns: up to two entries, a link twice too.
FeedResults == SeqUpTo(Entries, Cardinality(Links))

\* parser.parse(published).isoformat()
IsoFormat == ("Wed, 01 May 2024" :> "2024-05-01") @@ ("Thu, 02 May 2024" :> "2024-05-02")

\* The entries of a feed, the first of each link, as articles.
RECURSIVE Unseen(_, _, _)
Unseen(entries, category, seen_links) ==
    IF entries = <<>> THEN <<>>
    ELSE LET e == Head(entries)
         IN  IF e.link \in seen_links
             THEN Unseen(Tail(entries), category, seen_links)
             ELSE <<[category |-> category, title |-> e.title, link |-> e.link,
                     published_date |-> IsoFormat[e.published]]>>
                  \o Unseen(Tail(entries), category, seen_links \cup {e.link})

\* articles.sort(key=published_date, reverse=True): newest first, articles
\* of one date in the order they had.
RECURSIVE SortNewestFirst(_)
SortNewestFirst(as) ==
    IF as = <<>> THEN <<>>
    ELSE LET newest == CHOOSE i \in 1..Len(as) :
                 /\ \A j \in 1..Len(as) :
                       Rank(Str(as[j].published_date)) <= Rank(Str(as[i].published_date))
                 /\ \A j \in 1..(i - 1) :
                       as[j].published_date # as[i].published_date
         IN  <<as[newest]>>
             \o SortNewestFirst(SubSeq(as, 1, newest - 1) \o SubSeq(as, newest + 1, Len(as)))

\* fetch_news_rss(feed_url, category), the feed's entries given.
fetch_news_rss(entries, category) == SortNewestFirst(Unseen(entries, category, {}))

\* The loop of aggregate_news over the feeds from the f-th on: an article
\* whose link is in processed_links is passed over.
RECURSIVE Collect(_, _, _)
Collect(results, f, processed_links) ==
    IF f > Len(NEWS_SOURCES) THEN <<>>
    ELSE LET fetched == fetch_news_rss(results[f], NEWS_SOURCES[f][1])
             fresh == SelectSeq(fetched, LAMBDA a : a.link \notin processed_links)
             RECURSIVE FirstOfLink(_, _)
             FirstOfLink(as, seen) ==
                 IF as = <<>> THEN <<>>
                 ELSE IF Head(as).link \in seen THEN FirstOfLink(Tail(as), seen)
                 ELSE <<Head(as)>> \o FirstOfLink(Tail(as), seen \cup {Head(as).link})
             new == FirstOfLink(fresh, {})
         IN  new \o Collect(results, f + 1,
                            processed_links \cup {new[i].link : i \in 1..Len(new)})

NotRun == [pc |-> "idle", all_articles |-> <<>>, i |-> 1]

\* A call that has returned or raised: its locals are gone.
Ended(how) == [pc |-> how, all_articles |-> <<>>, i |-> 1]

InitRSS ==
    /\ pc = "off"
    /\ error = "none"
    /\ rate_file = File(FALSE, NoTable)
    /\ payroll_file = File(FALSE, NoTable)
    /\ rate_sheet = NoTable
    /\ payroll_data = NoTable
    /\ Employee_names = NoTable
    /\ Employees_with_rates = NoTable
    /\ discrepancies = <<>>
    /\ grouped_employees = NoTable
    /\ output_file = NoFile
    /\ db_ready = FALSE
    /\ articles = <<>>
    /\ lock = 0
    /\ pending = <<>>
    /\ run = [r \in Runs |-> NotRun]

\* Lines 57-74: CREATE TABLE IF NOT EXISTS articles (..., link TEXT UNIQUE, ...)
init_db ==
    /\ ~db_ready
    /\ db_ready' = TRUE
    /\ UNCHANGED <<articles, lock, pending, run>>
    /\ UNCHANGED pvars

\* Lines 136-147: the feeds fetched and all_articles collected.  Runs start
\* in the order of their numbers.
Fetch(r) ==
    /\ db_ready
    /\ run[r].pc = "idle"
    /\ r > 1 => run[r - 1].pc # "idle"
    /\ \E results \in [1..Len(NEWS_SOURCES) -> FeedResults] :
          run' = [run EXCEPT ![r] = [pc |-> "save",
                                     all_articles |-> Collect(results, 1, {}),
                                     i |-> 1]]
    /\ UNCHANGED <<db_ready, articles, lock, pending>>
    /\ UNCHANGED pvars

\* No row has the link.
NoRowOf(rows, link) == FALSE

\* link TEXT UNIQUE: some row has the link.
LinkTaken(rows, link) == \E k \in 1..Len(rows) : rows[k].link = link

\* Lines 119-130: INSERT OR IGNORE of the run's i-th article.  The first
\* INSERT of a connection takes the write lock, which it gets only when no
\* other connection holds it.
Insert(r) ==
    /\ run[r].pc = "save"
    /\ run[r].i <= Len(run[r].all_articles)
    /\ lock \in {0, r}
    /\ lock' = r
    /\ LET a == run[r].all_articles[run[r].i]
       IN  pending' =
              IF LinkTaken(articles \o pending, a.link)
              THEN pending
              ELSE Append(pending,
                          [id |-> Len(articles) + Len(pending) + 1,
                           category |-> a.category,
                           title |-> a.title,
                           link |-> a.link,
                           published_date |-> a.published_date,
                           scraped_date |-> r])
    /\ run' = [run EXCEPT ![r].i = @ + 1]
    /\ UNCHANGED <<db_ready, articles>>
    /\ UNCHANGED pvars

\* The INSERT times out on another connection's lock: OperationalError,
\* which save_articles_to_db does not catch; the run ends.
Busy(r) ==
    /\ run[r].pc = "save"
    /\ run[r].i <= Len(run[r].all_articles)
    /\ lock \notin {0, r}
    /\ run' = [run EXCEPT ![r] = Ended("failed")]
    /\ UNCHANGED <<db_ready, articles, lock, pending>>
    /\ UNCHANGED pvars

\* Line 133: conn.commit()
Commit(r) ==
    /\ run[r].pc = "save"
    /\ run[r].i > Len(run[r].all_articles)
    /\ IF lock = r
       THEN /\ articles' = articles \o pending
            /\ pending' = <<>>
            /\ lock' = 0
       ELSE UNCHANGED <<articles, pending, lock>>
    /\ run' = [run EXCEPT ![r] = Ended("done")]
    /\ UNCHANGED db_ready
    /\ UNCHANGED pvars

\* The commit times out on a reader (home() has a SELECT open): the with
\* block rolls the transaction back and the run ends.
CommitBusy(r) ==
    /\ run[r].pc = "save"
    /\ run[r].i > Len(run[r].all_articles)
    /\ lock = r
    /\ pending' = <<>>
    /\ lock' = 0
    /\ run' = [run EXCEPT ![r] = Ended("failed")]
    /\ UNCHANGED <<db_ready, articles>>
    /\ UNCHANGED pvars

NextRSS ==
    \/ init_db
    \/ \E r \in Runs : Fetch(r)
    \/ \E r \in Runs : Insert(r)
    \/ \E r \in Runs : Busy(r)
    \/ \E r \in Runs : Commit(r)
    \/ \E r \in Runs : CommitBusy(r)

SpecRSS == InitRSS /\ [][NextRSS]_vars

---------------------------------------------------------------------------
(* What the claims are stated in *)

AfterMerge == pc \in {"coerce", "reconcile", "group", "grand_total", "write", "done"}

AfterReconcile == pc \in {"group", "grand_total", "write", "done"}

\* The joined table as the merge left it, before any cell was coerced.
RawJoined == MergeOuter(Employee_names, rate_sheet, "License")

\* The activity rows of the workbook that are not "Unassigned", as loaded.
Assigned ==
    SelectSeq(payroll_data.rows,
              LAMBDA r : r["Employee"] # Str("Unassigned"))

\* A cell as a number of hundredths, 0 where it holds no number.
AsNumberOrZero(cell) ==
    CASE cell.k = "num" -> cell.n
      [] cell = Str("1.5") -> 150
      [] OTHER -> 0

\* t (hundredths) is p (ten-thousandths) rounded to two decimals.
NearestHundredth(p, t) ==
    LET d == 100 * t - p
    IN  /\ d \in -50..50
        /\ d \in {-50, 50} => t % 2 = 0

\* The rate the sheet gives a license, 0 where it gives none.
RateOf(license) ==
    IF \E i \in 1..Len(rate_sheet.rows) : rate_sheet.rows[i]["License"] = license
    THEN AsNumberOrZero(
            rate_sheet.rows[CHOOSE i \in 1..Len(rate_sheet.rows) :
                                rate_sheet.rows[i]["License"] = license]["Rate"])
    ELSE 0

\* round(rate * hours, 2) of an activity row, in hundredths.
RowTotal(r) ==
    CHOOSE t \in 0..(RateOf(r["License"]) * AsNumberOrZero(r["Hours"])) \div 100 + 1 :
        NearestHundredth(RateOf(r["License"]) * AsNumberOrZero(r["Hours"]), t)

\* The rows of the output that stand for a group: all but the last.
OutputGroups == SubSeq(output_file.table.rows, 1, Len(output_file.table.rows) - 1)

\* The joined rows of one Verified Date, in the joined table's order.
JoinedOf(date) ==
    SelectSeq(Employees_with_rates.rows, LAMBDA r : r["Verified Date"] = date)

\* The assigned activity rows of one Verified Date, in load order.
LoadedOf(date) == SelectSeq(Assigned, LAMBDA r : r["Verified Date"] = date)

---------------------------------------------------------------------------
(* C1: every joined row's Calculated Total is round(rate * hours, 2), rate
   and hours being the merged cells read as numbers and 0 where a cell is
   missing or no number; and the Total the aggregator reads is that value. *)
C1_CalculatedTotal ==
    AfterReconcile =>
        LET raw == RawJoined.rows
            now == Employees_with_rates.rows
        IN  /\ Len(now) = Len(raw)
            /\ \A i \in 1..Len(now) :
                  /\ now[i]["Calculated Total"].k = "num"
                  /\ NearestHundredth(AsNumberOrZero(raw[i]["Rate"])
                                          * AsNumberOrZero(raw[i]["Hours"]),
                                      now[i]["Calculated Total"].n)
                  /\ now[i]["Total"] = now[i]["Calculated Total"]

\* A text in an Hours cell counted as 0, and 0.25 * 1.5 = 0.375 rounded to 0.38.
C1_Witness ==
    /\ pc = "group"
    /\ \E i, j \in 1..Len(RawJoined.rows) :
          /\ RawJoined.rows[i]["Hours"] = Str("ten")
          /\ Employees_with_rates.rows[i]["Total"] = Num(0)
          /\ RawJoined.rows[j]["Hours"] = Str("1.5")
          /\ RawJoined.rows[j]["Rate"] = Num(25)
          /\ Employees_with_rates.rows[j]["Total"] = Num(38)

(* C2: the outer join loses nothing: every License of the rate sheet and of
   the assigned activity rows is on a joined row, and an activity row whose
   License the rate sheet lacks is kept, with Rate 0 and total 0. *)
C2_OuterJoinKeepsAll ==
    /\ AfterMerge =>
          /\ \A l \in Cells(rate_sheet, "License") :
                l \in Cells(Employees_with_rates, "License")
          /\ \A i \in 1..Len(Assigned) :
                Assigned[i]["License"] \in Cells(Employees_with_rates, "License")
    /\ AfterReconcile =>
          \A i \in 1..Len(Assigned) :
              Assigned[i]["License"] \notin Cells(rate_sheet, "License") =>
                  \E j \in 1..Len(Employees_with_rates.rows) :
                      LET row == Employees_with_rates.rows[j]
                      IN  /\ row["Employee"] = Assigned[i]["Employee"]
                          /\ row["License"] = Assigned[i]["License"]
                          /\ row["Verified Date"] = Assigned[i]["Verified Date"]
                          /\ row["Rate"] = Num(0)
                          /\ row["Calculated Total"] = Num(0)

\* An LVN activity row with no rate, and a CNA rate with no activity row.
C2_Witness ==
    /\ pc = "done"
    /\ Str("CNA") \in Cells(rate_sheet, "License")
    /\ \E i \in 1..Len(Assigned) :
          /\ Assigned[i]["License"] = Str("LVN")
          /\ Assigned[i]["Hours"] = Num(150)
    /\ \E j \in 1..Len(Employees_with_rates.rows) :
          /\ Employees_with_rates.rows[j]["License"] = Str("CNA")
          /\ IsNa(Employees_with_rates.rows[j]["Employee"])

(* C3: an activity row whose own Total differs from its recomputed total is
   reported among the discrepancies, and the Total written is the
   recomputed one. *)
C3_DiscrepancyReported ==
    (pc = "done" /\ "Total" \in payroll_data.cols) =>
        \A i \in 1..Len(Assigned) :
            LET row == Assigned[i]
            IN  /\ row["Total"] # Num(RowTotal(row)) =>
                      \E d \in 1..Len(discrepancies) :
                          /\ discrepancies[d]["Employee"] = row["Employee"]
                          /\ discrepancies[d]["License"] = row["License"]
                          /\ discrepancies[d]["Verified Date"] = row["Verified Date"]
                /\ \E j \in 1..Len(Employees_with_rates.rows) :
                      /\ Employees_with_rates.rows[j]["License"] = row["License"]
                      /\ Employees_with_rates.rows[j]["Total"] = Num(RowTotal(row))

(* C4: the output has one row per distinct Verified Date of the joined
   data, a missing date being one of them, plus the Grand Total row. *)
C4_RowCount ==
    pc = "done" =>
        Len(output_file.table.rows)
            = Cardinality(Cells(Employees_with_rates, "Verified Date")) + 1

(* C5: the joined rows that have no Verified Date form a group of their
   own: the output has a row for them, with their Hours and Total summed. *)
C5_NullDateGroup ==
    (pc = "done" /\ JoinedOf(NaN) # <<>>) =>
        \E i \in 1..Len(OutputGroups) :
            /\ IsNa(OutputGroups[i]["Verified Date"])
            /\ OutputGroups[i]["Hours"].n
                  = SeqSum([j \in 1..Len(JoinedOf(NaN)) |-> JoinedOf(NaN)[j]["Hours"].n])
            /\ OutputGroups[i]["Total"].n
                  = SeqSum([j \in 1..Len(JoinedOf(NaN)) |-> JoinedOf(NaN)[j]["Total"].n])

(* C6: the output ends with the one Grand Total row: Employee, License and
   Rate blank, Hours and Total the sums over the rows before it. *)
C6_GrandTotal ==
    output_file.written =>
        LET rows == output_file.table.rows
            last == rows[Len(rows)]
        IN  /\ Len(rows) >= 1
            /\ last["Verified Date"] = Str("Grand Total")
            /\ last["Employee"] = Str("")
            /\ last["License"] = Str("")
            /\ last["Rate"] = Str("")
            /\ last["Hours"] = Num(SeqSum([i \in 1..Len(OutputGroups) |->
                                              OutputGroups[i]["Hours"].n]))
            /\ last["Total"] = Num(SeqSum([i \in 1..Len(OutputGroups) |->
                                              OutputGroups[i]["Total"].n]))
            /\ \A i \in 1..Len(OutputGroups) :
                  OutputGroups[i]["Verified Date"] # Str("Grand Total")

\* Two groups with hours and money in them, then the Grand Total.
C6_Witness ==
    /\ output_file.written
    /\ Len(output_file.table.rows) = 3
    /\ output_file.table.rows[1]["Total"].n > 0
    /\ output_file.table.rows[2]["Total"].n > 0
    /\ output_file.table.rows[3]["Hours"] = Num(300)

(* C7 as stated: a group's Employee, License and Rate are those of its
   first activity row in load order; Hours and Total are the group's sums. *)
C7_FirstInLoadOrder ==
    pc = "done" =>
        \A i \in 1..Len(OutputGroups) :
            LET g == OutputGroups[i]
                loaded == LoadedOf(g["Verified Date"])
            IN  /\ loaded # <<>>
                /\ g["Employee"] = loaded[1]["Employee"]
                /\ g["License"] = loaded[1]["License"]
                /\ g["Rate"] = Num(RateOf(loaded[1]["License"]))
                /\ g["Hours"] = Num(SeqSum([j \in 1..Len(loaded) |->
                                              AsNumberOrZero(loaded[j]["Hours"])]))
                /\ g["Total"] = Num(SeqSum([j \in 1..Len(loaded) |-> RowTotal(loaded[j])]))

\* v is the first cell of column c, in the order of rows, that is not NaN.
FirstPresent(rows, c, v) ==
    \/ /\ \A j \in 1..Len(rows) : IsNa(rows[j][c])
       /\ v = NaN
    \/ \E j \in 1..Len(rows) :
          /\ ~IsNa(rows[j][c])
          /\ v = rows[j][c]
          /\ \A h \in 1..(j - 1) : IsNa(rows[h][c])

(* C7 as amended: a group's Employee, License and Rate are, column by
   column, the first value that is not missing among the group's rows in
   the joined table's order; Hours and Total are the sums over the group's
   activity rows. *)
C7_FirstPresentInJoinOrder ==
    pc = "done" =>
        \A i \in 1..Len(OutputGroups) :
            LET g == OutputGroups[i]
                rows == JoinedOf(g["Verified Date"])
                loaded == LoadedOf(g["Verified Date"])
            IN  /\ rows # <<>>
                /\ \A c \in {"Employee", "License", "Rate"} : FirstPresent(rows, c, g[c])
                /\ g["Hours"] = Num(SeqSum([j \in 1..Len(loaded) |->
                                              AsNumberOrZero(loaded[j]["Hours"])]))
                /\ g["Total"] = Num(SeqSum([j \in 1..Len(loaded) |-> RowTotal(loaded[j])]))

\* Loaded as (Alice, RN), (nobody, LVN) on one date; joined in the order
\* LVN, RN; the output row says Alice and LVN.
C7_Witness ==
    /\ pc = "done"
    /\ \E i \in 1..Len(OutputGroups) :
          LET g == OutputGroups[i]
              rows == JoinedOf(g["Verified Date"])
              loaded == LoadedOf(g["Verified Date"])
          IN  /\ Len(rows) = 2
              /\ IsNa(rows[1]["Employee"])
              /\ rows[1]["License"] = Str("LVN")
              /\ loaded[1]["License"] = Str("RN")
              /\ g["Employee"] = Str("Alice")
              /\ g["License"] = Str("LVN")
              /\ g["Hours"] = Num(300)

(* C8: an "Unassigned" activity row gives no joined row and adds nothing to
   any group or to the Grand Total; a date or license that only such rows
   carry is not in the output. *)
C8_UnassignedExcluded ==
    /\ AfterMerge =>
          /\ \A j \in 1..Len(Employees_with_rates.rows) :
                Employees_with_rates.rows[j]["Employee"] # Str("Unassigned")
          /\ Len(Employees_with_rates.rows)
                = Len(Assigned)
                  + Cardinality(Cells(rate_sheet, "License")
                                \ {Assigned[i]["License"] : i \in 1..Len(Assigned)})
    /\ pc = "done" =>
          /\ \A i \in 1..Len(OutputGroups) :
                LET g == OutputGroups[i]
                    loaded == LoadedOf(g["Verified Date"])
                IN  /\ loaded # <<>>
                    /\ g["Employee"] # Str("Unassigned")
                    /\ g["License"] \in {loaded[j]["License"] : j \in 1..Len(loaded)}
                    /\ g["Hours"] = Num(SeqSum([j \in 1..Len(loaded) |->
                                                  AsNumberOrZero(loaded[j]["Hours"])]))
                    /\ g["Total"] = Num(SeqSum([j \in 1..Len(loaded) |->
                                                  RowTotal(loaded[j])]))
          /\ LET dated == SelectSeq(Assigned, LAMBDA r : ~IsNa(r["Verified Date"]))
                 last == output_file.table.rows[Len(output_file.table.rows)]
             IN  /\ last["Hours"] = Num(SeqSum([j \in 1..Len(dated) |->
                                                  AsNumberOrZero(dated[j]["Hours"])]))
                 /\ last["Total"] = Num(SeqSum([j \in 1..Len(dated) |->
                                                  RowTotal(dated[j])]))

\* An "Unassigned" row is the only one of 2024-05-02 and the only LVN one:
\* neither is in the output, which has a row for the assigned RN row.
C8_Witness ==
    /\ pc = "done"
    /\ \E i \in 1..Len(payroll_data.rows) :
          /\ payroll_data.rows[i]["Employee"] = Str("Unassigned")
          /\ payroll_data.rows[i]["Verified Date"] = Str("2024-05-02")
          /\ payroll_data.rows[i]["License"] = Str("LVN")
    /\ Len(Assigned) = 1
    /\ Assigned[1]["License"] = Str("RN")
    /\ Len(OutputGroups) = 1
    /\ Str("2024-05-02") \notin Cells(output_file.table, "Verified Date")
    /\ Str("LVN") \notin Cells(output_file.table, "License")
    /\ output_file.table.rows[2]["Hours"] = Num(150)

\* Both workbooks can be read and have the columns the script names.
FilesSound ==
    /\ rate_file.readable
    /\ payroll_file.readable
    /\ RateColumns \subseteq rate_file.table.cols
    /\ PayrollColumns \subseteq payroll_file.table.cols

(* C9: the run writes the whole output table or nothing: a workbook that
   cannot be read or lacks a column ends the run with nothing written; the
   table is written once, after every stage, as the stages left it; only a
   load fault ends a run early, never a cell's value or a discrepancy. *)
C9_AllOrNothing ==
    /\ output_file.written =>
          /\ pc = "done"
          /\ error = "none"
          /\ output_file.table = grouped_employees
          /\ {OutputGroups[i]["Verified Date"] : i \in 1..Len(OutputGroups)}
                = {d \in Cells(Employees_with_rates, "Verified Date") : ~IsNa(d)}
          /\ output_file.table.rows[Len(output_file.table.rows)]["Verified Date"]
                = Str("Grand Total")
    /\ ~output_file.written => output_file = NoFile /\ pc # "done"
    /\ ~FilesSound => ~output_file.written /\ ~AfterReconcile
    /\ pc = "aborted" <=> error # "none"
    /\ pc = "aborted" =>
          \/ ~FilesSound
          \/ Len(payroll_file.table.rows) < SampleSize

\* A run with a text in an Hours cell and a discrepancy reported, written.
C9_Witness ==
    /\ output_file.written
    /\ discrepancies # <<>>
    /\ \E i \in 1..Len(Assigned) : Assigned[i]["Hours"] = Str("ten")
    /\ Len(output_file.table.rows) = 2

(* C10: the articles table never holds two rows of one link, and a row,
   once stored, is never changed or removed by a later run: the first
   category, title and published date stored for a link stay. *)
C10_OneRowPerLink ==
    /\ [](\A i, j \in 1..Len(articles) :
             i # j => articles[i].link # articles[j].link)
    /\ [][\A i \in 1..Len(articles) :
             i <= Len(articles') /\ articles'[i] = articles[i]]_vars

\* Run 1 stored link1 as an MMA article titled title1.  Run 2 fetched link1
\* as a Boxing article titled title2 and link2, has done both INSERTs and
\* is about to commit: link1's row is as run 1 stored it, link2's is new.
C10_Witness ==
    /\ run[1].pc = "done"
    /\ run[2].pc = "save"
    /\ run[2].i = 3
    /\ run[2].all_articles[1].link = "link1"
    /\ run[2].all_articles[1].title = "title2"
    /\ run[2].all_articles[1].category = "Boxing"
    /\ lock = 2
    /\ articles = <<[id |-> 1, category |-> "MMA", title |-> "title1",
                     link |-> "link1", published_date |-> "2024-05-01",
                     scraped_date |-> 1]>>
    /\ Len(pending) = 1
    /\ pending[1].link = "link2"
    /\ pending[1].id = 2

====
